---- MODULE Spec2Model ----
(***************************************************************************)
(* Model of SVGRenderer (src/src/svg-renderer.js): the compound graph held *)
(* in this.layout, the collapse bookkeeping (collapseTracker, hiddenEdges) *)
(* and the collapse / expand operations that rewrite the graph.            *)
(*                                                                         *)
(* JavaScript objects are modelled as a heap keyed by id: nodeObj[id] is   *)
(* the node object with that id (nodeObj[ROOT] is the layout root), and    *)
(* edgeObj[id] the edge object.  Arrays of objects are sequences of ids,   *)
(* so an object held by two arrays is shared, as in the program.           *)
(* Geometry (x, y, width, height, points) is owned by the layout adapter   *)
(* and is not modelled.  A missing `nodes` / `edges` property is modelled  *)
(* as the empty sequence: every reader in the program guards on it.        *)
(*                                                                         *)
(* The chart's '.node' elements (dom) are those of the default "basic"     *)
(* render mode, in which renderNodes rebuilds them from this.layout.  The  *)
(* layout adapter keeps ids and structure, and under Spec its result is    *)
(* stored before the next call is made, so that collapse and expand each   *)
(* run to their end.  utils.traverse is not part of the renderer's file;   *)
(* it is taken to call back on an object before walking its `nodes`.       *)
(***************************************************************************)
EXTENDS Integers, Sequences, FiniteSets, TLC

\* ------------------------------------------------------------------ values

NONE == "none"
ROOT == "root"
UNDEF == "undefined"

\* The node ids of the input graphs, and an id that no node carries.
NodeIds == {"A", "P", "X", "U"}
GhostId == "Z"
Ids == NodeIds \cup {GhostId}

\* The edge ids of the input graphs, in the order the input lists them.
EdgeOrder == <<"e1", "e2">>
EdgeIds == {EdgeOrder[i] : i \in DOMAIN EdgeOrder}

\* The node tree of the input graphs: root > {A, P}, P > {X}, X > {U}.
Tree == [x \in NodeIds \cup {ROOT} |->
           CASE x = ROOT -> <<"A", "P">>
             [] x = "P" -> <<"X">>
             [] x = "X" -> <<"U">>
             [] OTHER -> <<>>]

\* The objects of the input that may carry an `edges` list.
Holders == {ROOT, "P", "X"}

\* An input graph gives every edge a source, a target and the list holding it.
Graphs == {g \in [EdgeIds -> [source : NodeIds, target : NodeIds, holder : Holders]] :
             \A e \in EdgeIds : g[e].source # g[e].target}

\* Operations per behaviour.
MaxOps == 4

EmptyMap == [x \in {} |-> NONE]

Range(s) == {s[i] : i \in DOMAIN s}

MapPut(f, k, v) == [x \in DOMAIN f \cup {k} |-> IF x = k THEN v ELSE f[x]]

MapDel(f, k) == [x \in DOMAIN f \ {k} |-> f[x]]

VARIABLES
  data,             \* this.data: the graph given to setData
  layout,           \* this.layout: "null" or ROOT (a reference into nodeObj)
  chart,            \* this.chart exists
  dom,              \* the '.node' elements of the chart: element id -> child element ids
  nodeObj,          \* heap of node objects: nodes, edges, collapsed
  edgeObj,          \* heap of edge objects: source, target
  collapseTracker,  \* this.collapseTracker
  hiddenEdges,      \* this.hiddenEdges
  last,             \* the last call: op, id, outcome, and whether it ran the layout adapter
  pre,              \* <<the program state right before the last call>>
  base,             \* <<the state before collapse(n)>>, kept across the expand(n) that follows it
  nops,             \* number of calls made
  async,            \* calls awaiting the layout adapter (used by SpecAsync)
  delta,            \* the chart of the "delta" render mode (used by SpecDelta)
  tracer,           \* a call of trace in progress (used by SpecTrace)
  culler,           \* the viewport and the visibility of edges (used by SpecCull)
  registry          \* this.registry: the callbacks of the interaction events

coreVars == <<data, layout, chart, dom, nodeObj, edgeObj, collapseTracker, hiddenEdges,
              last, pre, base, nops>>

vars == <<coreVars, async, delta, tracer, culler, registry>>

\* A part of the renderer that a specification does not exercise stays idle.
IDLE == "idle"

\* ------------------------------------------------------------ tree helpers

\* utils.traverse(root, callBackFn): the callback on root, then on each child subtree.
RECURSIVE traverse(_, _)
RECURSIVE traverseAll(_, _)
traverse(nobj, r) == <<r>> \o traverseAll(nobj, nobj[r].nodes)

traverseAll(nobj, rs) ==
  IF rs = <<>> THEN <<>>
  ELSE traverse(nobj, Head(rs)) \o traverseAll(nobj, Tail(rs))

\* node.selectAll('.node').data().map(d => d.id): ids of the elements below element n.
RECURSIVE domBelow(_, _)
RECURSIVE domBelowAll(_, _)
domBelow(d, n) == domBelowAll(d, d[n])

domBelowAll(d, rs) ==
  IF rs = <<>> THEN <<>>
  ELSE <<Head(rs)>> \o domBelow(d, Head(rs)) \o domBelowAll(d, Tail(rs))

\* chart.selectAll('.node'): ids of all node elements of the chart.
DomNodes(d) == Range(domBelow(d, ROOT))

\* ------------------------------------------------------------------ state

State == [nodeObj |-> nodeObj, edgeObj |-> edgeObj,
          collapseTracker |-> collapseTracker, hiddenEdges |-> hiddenEdges]

BlankNode == [nodes |-> <<>>, edges |-> <<>>, collapsed |-> UNDEF]

Init ==
  /\ data \in Graphs
  /\ layout = "null"
  /\ chart = FALSE
  /\ dom = [x \in NodeIds \cup {ROOT} |-> <<>>]
  /\ nodeObj = [x \in NodeIds \cup {ROOT} |-> BlankNode]
  /\ edgeObj = [e \in EdgeIds |-> [source |-> NONE, target |-> NONE]]
  /\ collapseTracker = EmptyMap
  /\ hiddenEdges = EmptyMap
  /\ last = [op |-> "new", id |-> NONE, outcome |-> "ok", run |-> FALSE]
  /\ pre = <<>>
  /\ base = <<>>
  /\ nops = 0
  /\ async = IDLE
  /\ delta = IDLE
  /\ tracer = IDLE
  /\ culler = IDLE
  /\ registry = EmptyMap

\* adapter.makeRenderingGraph(this.data) followed by adapter.run: the graph of the data.
runLayoutNodes(d) ==
  [x \in NodeIds \cup {ROOT} |->
     [nodes |-> Tree[x],
      edges |-> SelectSeq(EdgeOrder, LAMBDA e : d[e].holder = x),
      collapsed |-> UNDEF]]

runLayoutEdges(d) == [e \in EdgeIds |-> [source |-> d[e].source, target |-> d[e].target]]

\* renderNodes: every '.node' element is removed and rebuilt from this.layout.
renderNodes(nobj) ==
  LET live == Range(traverse(nobj, ROOT))
  IN [x \in NodeIds \cup {ROOT} |-> IF x \in live THEN nobj[x].nodes ELSE <<>>]

\* render(): obtains the layout when there is none, creates the chart, redraws.
Render ==
  /\ nops < MaxOps
  /\ LET nobj == IF layout = "null" THEN runLayoutNodes(data) ELSE nodeObj
         eobj == IF layout = "null" THEN runLayoutEdges(data) ELSE edgeObj
     IN /\ nodeObj' = nobj
        /\ edgeObj' = eobj
        /\ dom' = renderNodes(nobj)
  /\ layout' = ROOT
  /\ chart' = TRUE
  /\ last' = [op |-> "render", id |-> NONE, outcome |-> "ok", run |-> layout = "null"]
  /\ pre' = <<State>>
  /\ base' = <<>>
  /\ nops' = nops + 1
  /\ UNCHANGED <<data, collapseTracker, hiddenEdges, async, delta, tracer, culler, registry>>

\* --------------------------------------------------------------- collapse

\* collapse, line 528: ids of the '.node' elements below the elements bound to nodeId.
childrenNodeIds(d, nodeId) ==
  IF nodeId \in DomNodes(d) THEN Range(domBelow(d, nodeId)) ELSE {}

\* A variant of collapseEdge that records both endpoints of a rewritten edge.
collapseEdgeBoth(D, nodeId, acc, e) ==
  LET source == acc.eobj[e].source
      target == acc.eobj[e].target
  IN [acc EXCEPT
        !.eobj[e] = [source |-> IF source \in D THEN nodeId ELSE source,
                     target |-> IF target \in D THEN nodeId ELSE target],
        !.entry.edgeMap = IF source \in D \/ target \in D
                          THEN MapPut(acc.entry.edgeMap, e,
                                      [source |-> source, target |-> target])
                          ELSE acc.entry.edgeMap]

\* collapse, lines 559-575: one edge of a visited list; an endpoint among the
\* children ids is rewritten to nodeId and its old value kept in the edgeMap.
collapseEdge(D, nodeId, acc, e) ==
  LET source == acc.eobj[e].source
      target == acc.eobj[e].target
      originalEdge == [source |-> IF source \in D THEN source ELSE NONE,
                       target |-> IF target \in D THEN target ELSE NONE]
  IN [acc EXCEPT
        !.eobj[e] = [source |-> IF source \in D THEN nodeId ELSE source,
                     target |-> IF target \in D THEN nodeId ELSE target],
        !.entry.edgeMap = IF source \in D \/ target \in D
                          THEN MapPut(acc.entry.edgeMap, e, originalEdge)
                          ELSE acc.entry.edgeMap]

RECURSIVE collapseEdges(_, _, _, _)
collapseEdges(D, nodeId, acc, es) ==
  IF es = <<>> THEN acc
  ELSE collapseEdges(D, nodeId, collapseEdge(D, nodeId, acc, Head(es)), Tail(es))

\* collapse, line 551: _.remove takes the edges with both endpoints among the children ids.
isHidden(D, eobj, e) == eobj[e].source \in D /\ eobj[e].target \in D

\* collapse, lines 554-556: the removed edges of this list become hiddenEdges[nodeId].
storeHidden(hid, nodeId, hidden) ==
  IF hidden # <<>> THEN MapPut(hid, nodeId, hidden) ELSE hid

\* collapse, lines 536-577: the callback of traverse, on the visited object m.
collapseCallback(D, nodeId, acc, m) ==
  LET a1 == IF m = nodeId
            THEN [acc EXCEPT !.entry.nodes = acc.nobj[m].nodes,
                             !.nobj[m].nodes = <<>>,
                             !.nobj[m].collapsed = "true"]
            ELSE acc
      hidden == SelectSeq(a1.nobj[m].edges, LAMBDA e : isHidden(D, a1.eobj, e))
      kept == SelectSeq(a1.nobj[m].edges, LAMBDA e : ~isHidden(D, a1.eobj, e))
      a2 == [a1 EXCEPT !.nobj[m].edges = kept,
                       !.hid = storeHidden(a1.hid, nodeId, hidden)]
  IN collapseEdges(D, nodeId, a2, kept)

\* traverse(this.layout, callback) of collapse: the callback runs on an object
\* before its `nodes` are read, so the children it has just emptied are not visited.
RECURSIVE collapseTraverse(_, _, _, _)
RECURSIVE collapseTraverseAll(_, _, _, _)
collapseTraverse(D, nodeId, acc, r) ==
  LET a1 == collapseCallback(D, nodeId, acc, r)
  IN collapseTraverseAll(D, nodeId, a1, a1.nobj[r].nodes)

collapseTraverseAll(D, nodeId, acc, rs) ==
  IF rs = <<>> THEN acc
  ELSE collapseTraverseAll(D, nodeId, collapseTraverse(D, nodeId, acc, Head(rs)), Tail(rs))

\* collapse, lines 531-532: the record is (re)created before anything is checked.
newEntry == [edgeMap |-> EmptyMap, nodes |-> <<>>]

\* collapse(nodeId)
Collapse(nodeId) ==
  /\ nops < MaxOps
  /\ nops' = nops + 1
  /\ pre' = <<State>>
  /\ UNCHANGED <<data, layout, chart, async, delta, tracer, culler, registry>>
  /\ IF ~chart
     THEN \* this.chart is null: selectAll throws
          /\ last' = [op |-> "collapse", id |-> nodeId, outcome |-> "error", run |-> FALSE]
          /\ base' = <<>>
          /\ UNCHANGED <<dom, nodeObj, edgeObj, collapseTracker, hiddenEdges>>
     ELSE LET D == childrenNodeIds(dom, nodeId)
          IN IF D = {}
             THEN \* line 534: return, after the record was created
                  /\ collapseTracker' = MapPut(collapseTracker, nodeId, newEntry)
                  /\ last' = [op |-> "collapse", id |-> nodeId, outcome |-> "leaf", run |-> FALSE]
                  /\ base' = <<>>
                  /\ UNCHANGED <<dom, nodeObj, edgeObj, hiddenEdges>>
             ELSE LET acc == collapseTraverse(D, nodeId,
                                [nobj |-> nodeObj, eobj |-> edgeObj,
                                 entry |-> newEntry, hid |-> hiddenEdges], ROOT)
                  IN /\ nodeObj' = acc.nobj
                     /\ edgeObj' = acc.eobj
                     /\ collapseTracker' = MapPut(collapseTracker, nodeId, acc.entry)
                     /\ hiddenEdges' = acc.hid
                     /\ dom' = renderNodes(acc.nobj)
                     /\ last' = [op |-> "collapse", id |-> nodeId, outcome |-> "ok", run |-> TRUE]
                     /\ base' = <<[n |-> nodeId, st |-> State, phase |-> "collapsed"]>>

\* ----------------------------------------------------------------- expand

\* expand, lines 597-605: the callback of traverse(node.datum(), ...), on the visited node m.
restoreHidden(nodeId, nobj, acc, m) ==
  IF m \in DOMAIN acc.hid /\ nobj[m].collapsed = "false"
  THEN [rootEdges |-> acc.rootEdges \o (IF nodeId \in DOMAIN acc.hid
                                        THEN acc.hid[nodeId] ELSE <<UNDEF>>),
        hid |-> MapDel(acc.hid, nodeId)]
  ELSE acc

RECURSIVE restoreHiddenAll(_, _, _, _)
restoreHiddenAll(nodeId, nobj, acc, ms) ==
  IF ms = <<>> THEN acc
  ELSE restoreHiddenAll(nodeId, nobj, restoreHidden(nodeId, nobj, acc, Head(ms)), Tail(ms))

\* expand, lines 612-615: an edge of a visited list whose id is in the edgeMap
\* gets the recorded endpoint(s) back.
revertEdge(edgeMap, edge, e) ==
  IF e \in DOMAIN edgeMap
  THEN [target |-> IF edgeMap[e].target # NONE THEN edgeMap[e].target ELSE edge.target,
        source |-> IF edgeMap[e].source # NONE THEN edgeMap[e].source ELSE edge.source]
  ELSE edge

\* The edge ids held by the lists that traverse(this.layout, ...) visits.
visitedEdges(nobj) ==
  UNION {Range(nobj[m].edges) : m \in Range(traverse(nobj, ROOT))}

\* A variant of expandThrows in which collapsed is assigned before entry is read.
expandThrowsLate(nodeId) ==
  /\ last' = [op |-> "expand", id |-> nodeId, outcome |-> "error", run |-> FALSE]
  /\ base' = <<>>
  /\ nodeObj' = IF chart /\ nodeId \in DomNodes(dom)
                THEN [nodeObj EXCEPT ![nodeId].collapsed = "false"]
                ELSE nodeObj
  /\ UNCHANGED <<dom, edgeObj, collapseTracker, hiddenEdges>>

\* expand, lines 588-593: with no chart, no element bound to nodeId or no record,
\* a TypeError is thrown before anything is assigned.
expandThrows(nodeId) ==
  /\ last' = [op |-> "expand", id |-> nodeId, outcome |-> "error", run |-> FALSE]
  /\ base' = <<>>
  /\ UNCHANGED <<dom, nodeObj, edgeObj, collapseTracker, hiddenEdges>>

\* expand(nodeId)
Expand(nodeId) ==
  /\ nops < MaxOps
  /\ nops' = nops + 1
  /\ pre' = <<State>>
  /\ UNCHANGED <<data, layout, chart, async, delta, tracer, culler, registry>>
  /\ IF ~chart \/ nodeId \notin DomNodes(dom) \/ nodeId \notin DOMAIN collapseTracker
     THEN expandThrows(nodeId)
     ELSE LET entry == collapseTracker[nodeId]
              nobj1 == [nodeObj EXCEPT ![nodeId].nodes = entry.nodes,
                                       ![nodeId].collapsed = "false"]
              r == restoreHiddenAll(nodeId, nobj1,
                                    [rootEdges |-> nobj1[ROOT].edges, hid |-> hiddenEdges],
                                    traverse(nobj1, nodeId))
              nobj2 == [nobj1 EXCEPT ![ROOT].edges = r.rootEdges]
              seen == visitedEdges(nobj2) \cap EdgeIds
          IN /\ nodeObj' = nobj2
             /\ hiddenEdges' = r.hid
             /\ edgeObj' = [e \in EdgeIds |->
                              IF e \in seen THEN revertEdge(entry.edgeMap, edgeObj[e], e)
                              ELSE edgeObj[e]]
             /\ collapseTracker' = MapDel(collapseTracker, nodeId)
             /\ dom' = renderNodes(nobj2)
             /\ last' = [op |-> "expand", id |-> nodeId, outcome |-> "ok", run |-> TRUE]
             /\ base' = IF base # <<>> /\ last.op = "collapse" /\ last.id = nodeId
                        THEN <<[base[1] EXCEPT !.phase = "expanded"]>>
                        ELSE <<>>

Next ==
  \/ Render
  \/ \E nodeId \in Ids : Collapse(nodeId)
  \/ \E nodeId \in Ids : Expand(nodeId)

Spec == Init /\ [][Next]_vars

\* ------------------------------------------------- vocabulary of the claims

\* The objects of the graph s: the root and the nodes reachable from it.
Live(s) == Range(traverse(s.nodeObj, ROOT))

\* The live objects whose edge-list holds edge e.
LiveHolders(s, e) == {m \in Live(s) : e \in Range(s.nodeObj[m].edges)}

\* The edges held by some live edge-list.
LiveEdges(s) == {e \in EdgeIds : LiveHolders(s, e) # {}}

\* The ids of all descendants of node n in the graph s.
Descendants(s, n) == Range(traverse(s.nodeObj, n)) \ {n}

\* collapsed, read as a boolean (a node never collapsed has no such property).
IsCollapsed(s, x) == s.nodeObj[x].collapsed = "true"

\* The node tree and the edges (source, target, holding list) of s and t agree.
SameGraph(s, t) ==
  /\ Live(s) = Live(t)
  /\ \A x \in Live(s) :
       /\ s.nodeObj[x].nodes = t.nodeObj[x].nodes
       /\ IsCollapsed(s, x) = IsCollapsed(t, x)
  /\ LiveEdges(s) = LiveEdges(t)
  /\ \A e \in LiveEdges(s) :
       /\ s.edgeObj[e] = t.edgeObj[e]
       /\ LiveHolders(s, e) = LiveHolders(t, e)

\* The last call was collapse(n) on a node with children, and it went through.
Collapsed == last.op = "collapse" /\ last.outcome = "ok"

\* The last two calls were collapse(n) on a node with children and then expand(n).
RoundTrip == base # <<>> /\ base[1].phase = "expanded"

\* Number of endpoints of edge e of graph s that lie in D.
EndsIn(s, e, D) ==
  (IF s.edgeObj[e].source \in D THEN 1 ELSE 0) + (IF s.edgeObj[e].target \in D THEN 1 ELSE 0)

\* ------------------------------------------------------------------ claims

\* C1: collapse(n) of a non-leaf node followed at once by expand(n) gives back
\* the node tree and the edges (ids, source, target, holding edge-list) of the
\* graph before the collapse.
C1_CollapseExpandIdentity ==
  RoundTrip => SameGraph(base[1].st, State)

\* C2: after collapse(n), with D the descendants of n before the call: edges
\* with both endpoints in D are in no live edge-list; edges with exactly one
\* endpoint in D are live, that endpoint is n and the other is unchanged;
\* edges with no endpoint in D keep source, target and edge-list.
C2_CollapseRewritesBoundary ==
  Collapsed =>
    LET s == pre[1]
        n == last.id
        D == Descendants(s, n)
    IN \A e \in LiveEdges(s) :
         /\ EndsIn(s, e, D) = 2 => LiveHolders(State, e) = {}
         /\ EndsIn(s, e, D) = 1 =>
              /\ LiveHolders(State, e) # {}
              /\ edgeObj[e].source = IF s.edgeObj[e].source \in D THEN n
                                     ELSE s.edgeObj[e].source
              /\ edgeObj[e].target = IF s.edgeObj[e].target \in D THEN n
                                     ELSE s.edgeObj[e].target
         /\ EndsIn(s, e, D) = 0 =>
              /\ edgeObj[e] = s.edgeObj[e]
              /\ LiveHolders(State, e) = LiveHolders(s, e)

\* C3: an edge held by the edge-list of a descendant of n, with exactly one
\* endpoint among the descendants of n, is in a live edge-list after
\* collapse(n), with that endpoint rewritten to n.
C3_NestedEdgeListsProcessed ==
  Collapsed =>
    LET s == pre[1]
        n == last.id
        D == Descendants(s, n)
    IN \A m \in D : \A e \in Range(s.nodeObj[m].edges) :
         EndsIn(s, e, D) = 1 =>
           /\ LiveHolders(State, e) # {}
           /\ n \in {edgeObj[e].source, edgeObj[e].target}

\* C4: after collapse(n) the edgeMap of n's record has an entry for e exactly
\* when the call rewrote an endpoint of e, and the entry holds the old value of
\* the rewritten endpoint(s) and nothing for an endpoint left alone.
C4_EdgeMapRecordsRewrites ==
  (last.op = "collapse" /\ last.outcome # "error") =>
    LET s == pre[1]
        n == last.id
        edgeMap == collapseTracker[n].edgeMap
    IN \A e \in EdgeIds :
         LET old == s.edgeObj[e]
             new == edgeObj[e]
         IN /\ e \in DOMAIN edgeMap <=> old # new
            /\ e \in DOMAIN edgeMap =>
                 /\ edgeMap[e].source = IF old.source # new.source THEN old.source ELSE NONE
                 /\ edgeMap[e].target = IF old.target # new.target THEN old.target ELSE NONE
                 /\ old.source # new.source => new.source = n
                 /\ old.target # new.target => new.target = n

\* Witness of C4: a collapse recorded a rewritten source for one edge and a
\* rewritten target for another.
C4_Witness ==
  /\ Collapsed
  /\ \E e, f \in DOMAIN collapseTracker[last.id].edgeMap :
       /\ collapseTracker[last.id].edgeMap[e].source # NONE
       /\ collapseTracker[last.id].edgeMap[e].target = NONE
       /\ collapseTracker[last.id].edgeMap[f].target # NONE
       /\ collapseTracker[last.id].edgeMap[f].source = NONE

\* The edges that collapse(n) took out of the edge-lists of graph s.
HiddenBy(s, n) ==
  {e \in EdgeIds : /\ EndsIn(s, e, Descendants(s, n)) = 2
                   /\ LiveHolders(s, e) \ Descendants(s, n) # {}}

\* C5: expand(n) right after collapse(n) puts every edge the collapse hid back
\* into a live edge-list, whatever lists they came from, and leaves no record
\* and no hidden-edges entry for n.
C5_ExpandRestoresHidden ==
  RoundTrip =>
    /\ \A e \in HiddenBy(base[1].st, base[1].n) : LiveHolders(State, e) # {}
    /\ base[1].n \notin DOMAIN collapseTracker
    /\ base[1].n \notin DOMAIN hiddenEdges

\* C6: collapse(n) on a node that is already collapsed leaves n's record and
\* the graph exactly as they were.
C6_RecollapseRejected ==
  (/\ last.op = "collapse"
   /\ last.id \in NodeIds
   /\ last.id \in DOMAIN pre[1].collapseTracker
   /\ IsCollapsed(pre[1], last.id)) =>
    State = pre[1]

\* C7: collapse(n) on a leaf changes neither the graph nor the collapse tables,
\* leaves no record for n and does not run the layout adapter.
C7_LeafCollapseNoOp ==
  (/\ last.op = "collapse"
   /\ last.id \in Live(pre[1])
   /\ pre[1].nodeObj[last.id].nodes = <<>>
   /\ ~IsCollapsed(pre[1], last.id)) =>
    /\ State = pre[1]
    /\ last.id \notin DOMAIN collapseTracker
    /\ ~last.run

\* C8: collapse(id) with an id no node carries fails with an error and changes
\* neither the graph nor the collapse tables.
C8_CollapseUnknownIdFails ==
  (last.op = "collapse" /\ last.id \notin NodeIds) =>
    /\ last.outcome = "error"
    /\ State = pre[1]
    /\ last.id \notin DOMAIN collapseTracker

\* C9: expand(n) on an id without a record fails with an error and changes
\* neither the graph nor the collapse tables.
C9_ExpandWithoutRecordFails ==
  (last.op = "expand" /\ last.id \notin DOMAIN pre[1].collapseTracker) =>
    /\ last.outcome = "error"
    /\ State = pre[1]

\* Witness of C9: expand was called on a drawn node that has no record.
C9_Witness ==
  /\ last.op = "expand"
  /\ last.outcome = "error"
  /\ chart
  /\ last.id \in DomNodes(dom)
  /\ last.id \notin DOMAIN collapseTracker
  /\ LiveEdges(State) = EdgeIds

\* Number of positions of the sequence es that hold e.
Occurrences(es, e) == Cardinality({i \in DOMAIN es : es[i] = e})

RECURSIVE SumOver(_, _)
SumOver(S, f) ==
  IF S = {} THEN 0
  ELSE LET x == CHOOSE y \in S : TRUE IN f[x] + SumOver(S \ {x}, f)

\* The nodes of the subtrees saved by the live records.
SavedNodes(s) ==
  UNION {Range(traverseAll(s.nodeObj, s.collapseTracker[n].nodes)) :
           n \in DOMAIN s.collapseTracker}

\* The number of places that hold edge e: positions in live edge-lists, in the
\* hidden edges, and in the edge-lists of saved subtrees.
Places(s, e) ==
  SumOver(Live(s) \cup SavedNodes(s),
          [m \in Live(s) \cup SavedNodes(s) |-> Occurrences(s.nodeObj[m].edges, e)])
  + SumOver(DOMAIN s.hiddenEdges,
            [n \in DOMAIN s.hiddenEdges |-> Occurrences(s.hiddenEdges[n], e)])

\* C10: whatever collapse and expand calls were made, every edge of the graph
\* is held in exactly one place: one live edge-list, or the hidden edges or
\* saved subtree of a live record.
C10_EdgePartition ==
  layout # "null" =>
    \A e \in EdgeIds :
      /\ Cardinality(LiveHolders(State, e)) <= 1
      /\ Places(State, e) = 1

(***************************************************************************)
(* The parts of the renderer below are exercised by specifications of      *)
(* their own.  While one of them runs, the graph state of Spec is idle.    *)
(***************************************************************************)
CoreIdle ==
  /\ data = IDLE
  /\ layout = IDLE
  /\ chart = IDLE
  /\ dom = IDLE
  /\ nodeObj = IDLE
  /\ edgeObj = IDLE
  /\ collapseTracker = IDLE
  /\ hiddenEdges = IDLE
  /\ last = IDLE
  /\ pre = IDLE
  /\ base = IDLE
  /\ nops = 0

(***************************************************************************)
(* trace(nodeId).  tracer.data is the top-level edge list of this.layout   *)
(* (the empty list also stands for "no layout yet"), each edge reduced to  *)
(* its source and target; tracer.nested holds the edges of the edge-lists  *)
(* of the nodes below.  The recursion of backtrack is kept on an           *)
(* explicit stack: a frame is one call of backtrack, with the edges its    *)
(* forEach has still to visit.                                             *)
(***************************************************************************)
TraceNodes == {"A", "B", "C"}
MaxTraceEdges == 3

TraceEdge == [source : TraceNodes, target : TraceNodes]

TraceData == UNION {[1..n -> TraceEdge] : n \in 0..MaxTraceEdges}

\* the filter taken over the sources instead
outgoing(edges, id) == SelectSeq(edges, LAMBDA edge : edge.source = id)

\* edges.filter(edge => edge.target === id)
incoming(edges, id) == SelectSeq(edges, LAMBDA edge : edge.target = id)

RECURSIVE uniqFrom(_, _)
uniqFrom(s, seen) ==
  IF s = <<>> THEN <<>>
  ELSE IF Head(s) \in seen THEN uniqFrom(Tail(s), seen)
       ELSE <<Head(s)>> \o uniqFrom(Tail(s), seen \cup {Head(s)})

\* no removal of duplicates
keepAll(s) == s

\* _.uniq: the first occurrence of every value, in order
uniq(s) == uniqFrom(s, {})

sourcesOf(edges) == [i \in 1..Len(edges) |-> edges[i].source]
targetsOf(edges) == [i \in 1..Len(edges) |-> edges[i].target]

traceResult(tracedEdges) ==
  [edges |-> [i \in 1..Len(tracedEdges) |->
                [source |-> tracedEdges[i].source, target |-> tracedEdges[i].target]],
   nodes |-> uniq(sourcesOf(tracedEdges) \o targetsOf(tracedEdges))]

InitTrace ==
  /\ CoreIdle
  /\ registry = IDLE
  /\ async = IDLE
  /\ delta = IDLE
  /\ culler = IDLE
  /\ \E all \in TraceData : \E k \in 0..Len(all) :
       tracer = [pc |-> "idle", data |-> SubSeq(all, 1, k),
                 nested |-> SubSeq(all, k + 1, Len(all)),
                 nodeId |-> NONE, checked |-> {},
                 tracedEdges |-> <<>>, stack |-> <<>>, result |-> <<>>]

newFrame(id) == [id |-> id, entered |-> FALSE, todo |-> <<>>]

\* trace(nodeId) is called: backtrack(nodeId) is the first frame
trace(nodeId) ==
  /\ tracer.pc = "idle"
  /\ tracer' = [tracer EXCEPT !.pc = "run", !.nodeId = nodeId,
                              !.stack = <<newFrame(nodeId)>>]
  /\ UNCHANGED <<coreVars, async, delta, culler, registry>>

\* one step of the innermost call of backtrack
backtrack ==
  /\ tracer.pc = "run"
  /\ tracer.stack # <<>>
  /\ LET n == Len(tracer.stack)
         f == tracer.stack[n]
         below == SubSeq(tracer.stack, 1, n - 1)
     IN  IF ~f.entered
         THEN IF f.id \in tracer.checked
              THEN tracer' = [tracer EXCEPT !.stack = below]
              ELSE tracer' = [tracer EXCEPT
                     !.checked = @ \cup {f.id},
                     !.stack = Append(below,
                                 [f EXCEPT !.entered = TRUE,
                                           !.todo = incoming(tracer.data, f.id)])]
         ELSE IF f.todo = <<>>
              THEN tracer' = [tracer EXCEPT !.stack = below]
              ELSE tracer' = [tracer EXCEPT
                     !.tracedEdges = Append(@, Head(f.todo)),
                     !.stack = Append(below, [f EXCEPT !.todo = Tail(@)])
                               \o <<newFrame(Head(f.todo).source)>>]
  /\ UNCHANGED <<coreVars, async, delta, culler, registry>>

\* the outermost backtrack has returned: the result is built
traceReturn ==
  /\ tracer.pc = "run"
  /\ tracer.stack = <<>>
  /\ tracer' = [tracer EXCEPT !.pc = "done",
                              !.result = <<traceResult(tracer.tracedEdges)>>]
  /\ UNCHANGED <<coreVars, async, delta, culler, registry>>

NextTrace ==
  \/ \E nodeId \in TraceNodes : trace(nodeId)
  \/ backtrack
  \/ traceReturn

\* JavaScript runs a call to completion: a step that can be taken is taken.
SpecTrace == InitTrace /\ [][NextTrace]_vars /\ WF_vars(NextTrace)

TraceCalled == tracer.pc = "run"
TraceReturned == tracer.pc = "done"

NoDuplicates(s) == \A i, j \in 1..Len(s) : s[i] = s[j] => i = j

\* C17: every call of trace returns, on graphs with cycles too (a cycle
\* through the start node and a self-loop included), and the node list it
\* returns holds no id twice.
C17_TraceTerminatesNoDuplicates ==
  /\ TraceCalled ~> TraceReturned
  /\ [](TraceReturned => NoDuplicates(tracer.result[1].nodes))

\* a returned trace that walked a cycle back to its start node and met
\* the same node more than once
C17_Witness ==
  /\ TraceReturned
  /\ \E i \in 1..Len(tracer.tracedEdges) : tracer.tracedEdges[i].source = tracer.nodeId
  /\ Len(tracer.tracedEdges) >= 2
  /\ ~NoDuplicates(sourcesOf(tracer.tracedEdges) \o targetsOf(tracer.tracedEdges))

ChainABC == <<[source |-> "A", target |-> "B"], [source |-> "B", target |-> "C"]>>

TraceOfChain ==
  TraceReturned /\ tracer.data = ChainABC /\ tracer.nested = <<>> /\ tracer.nodeId = "C"

\* C18 (as the code behaves): on the graph e1: A->B, e2: B->C, trace("C")
\* returns the edges in the order the backward walk meets them,
\* [{B,C},{A,B}], and the nodes [B,A,C]: the sources of the traced edges,
\* then their targets, first occurrences only.
C18_TraceOrderDiscovery ==
  TraceOfChain =>
    tracer.result[1] =
      [edges |-> <<[source |-> "B", target |-> "C"], [source |-> "A", target |-> "B"]>>,
       nodes |-> <<"B", "A", "C">>]

C18_Witness == TraceOfChain

\* C18 as stated: the edges [{A,B},{B,C}] and the nodes [A,B,C]
C18_TraceOrderAsStated ==
  TraceOfChain =>
    tracer.result[1] = [edges |-> ChainABC, nodes |-> <<"A", "B", "C">>]


(***************************************************************************)
(* boundary, cullEdges and uncullEdges.  culler.t is the zoom transform of *)
(* the chart, culler.edges the data bound to the '.edge' elements (the     *)
(* first and the last of its points), culler.opacity the style of each     *)
(* element and culler.culled the elements the last call of cullEdges set   *)
(* to opacity 0.  The transforms are chosen so that the divisions of       *)
(* boundary are exact.                                                     *)
(***************************************************************************)
CullLayout == [width |-> 4, height |-> 4]

CullTransforms == [x : {-4, 0, 4}, y : {-4, 0, 4}, k : {1, 2}]

CullPoints == [x : {-5, 1, 3, 9}, y : {-5, 1, 9}]

CullEdge == [first : CullPoints, last : CullPoints]

NumCullEdges == 1

InitCull ==
  /\ CoreIdle
  /\ registry = IDLE
  /\ async = IDLE
  /\ delta = IDLE
  /\ tracer = IDLE
  /\ \E es \in [1..NumCullEdges -> CullEdge] :
       culler = [t |-> [x |-> 0, y |-> 0, k |-> 1], edges |-> es,
                 opacity |-> [i \in 1..NumCullEdges |-> 1],
                 culled |-> {}, last |-> "new"]

boundary(t) ==
  [x1 |-> (0 - t.x) \div t.k,
   y1 |-> (0 - t.y) \div t.k,
   x2 |-> (CullLayout.width - t.x) \div t.k,
   y2 |-> (CullLayout.height - t.y) \div t.k]

outside(p, b) == p.x < b.x1 \/ p.x > b.x2 \/ p.y < b.y1 \/ p.y > b.y2

\* the test of cullEdges on one edge: d is hidden when it holds
cullTest(d, b) == outside(d.first, b) /\ outside(d.last, b)

\* the zoom behaviour changes the transform of the chart
zoomed(t) ==
  /\ culler.t # t
  /\ culler' = [culler EXCEPT !.t = t, !.last = "zoomed"]
  /\ UNCHANGED <<coreVars, async, delta, tracer, registry>>

cullEdges ==
  /\ LET b == boundary(culler.t)
         hit == {i \in 1..NumCullEdges : cullTest(culler.edges[i], b)}
     IN  culler' = [culler EXCEPT
                      !.opacity = [i \in 1..NumCullEdges |-> IF i \in hit THEN 0 ELSE @[i]],
                      !.culled = hit,
                      !.last = "cullEdges"]
  /\ UNCHANGED <<coreVars, async, delta, tracer, registry>>

uncullEdges ==
  /\ culler' = [culler EXCEPT !.opacity = [i \in 1..NumCullEdges |-> 1],
                              !.culled = {},
                              !.last = "uncullEdges"]
  /\ UNCHANGED <<coreVars, async, delta, tracer, registry>>

NextCull ==
  \/ \E t \in CullTransforms : zoomed(t)
  \/ cullEdges
  \/ uncullEdges

SpecCull == InitCull /\ [][NextCull]_vars

\* both points lie beyond the same side of the visible rectangle
SameSideOutside(d, b) ==
  \/ d.first.x < b.x1 /\ d.last.x < b.x1
  \/ d.first.x > b.x2 /\ d.last.x > b.x2
  \/ d.first.y < b.y1 /\ d.last.y < b.y1
  \/ d.first.y > b.y2 /\ d.last.y > b.y2

\* C19: a call of cullEdges hides an edge exactly when its first and its
\* last point lie outside the visible rectangle on the same side; an edge
\* with one point in view, or with its points out on different sides, is
\* not hidden by the call.
C19_CullSameSideOnly ==
  culler.last = "cullEdges" =>
    \A i \in 1..NumCullEdges :
      i \in culler.culled <=> SameSideOutside(culler.edges[i], boundary(culler.t))

\* a call of cullEdges that hid an edge whose points are out of view on
\* different sides
C19_Witness ==
  /\ culler.last = "cullEdges"
  /\ \E i \in culler.culled : ~SameSideOutside(culler.edges[i], boundary(culler.t))


(***************************************************************************)
(* The "delta" render mode: renderNodesDelta and renderEdgesDelta.         *)
(*                                                                         *)
(* A snapshot gives every node id its parent (or ABSENT) and every edge id *)
(* the node whose edge-list holds it (or ABSENT).  A '.node' element of    *)
(* the chart is named by its path of ids from the chart down, a '.edge'    *)
(* element by its id (they are all children of the chart).  An element     *)
(* carries the state tag of the datum bound to it, and `fresh` records     *)
(* whether that tag was assigned by the pass that ran last.  delta.again   *)
(* records that the last pass rendered the graph of the pass before it,    *)
(* delta.heldBefore the edge-lists of the graph of the pass before it.     *)
(*                                                                         *)
(* The layout adapter and the hooks are supplied by the client: setData    *)
(* followed by render yields new datum objects, and the removed hooks      *)
(* take the elements handed to them out of the chart (the renderer itself  *)
(* leaves that to them: its exit().remove() is commented out).             *)
(***************************************************************************)
ABSENT == "absent"
DeltaNodes == {"A", "P", "X"}
DeltaEdges == {"e1", "e2"}

DeltaGraphs ==
  {g \in [parent : [DeltaNodes -> {ABSENT, ROOT, "P"}],
          holder : [DeltaEdges -> {ABSENT, ROOT, "P"}]] :
     /\ g.parent["P"] \in {ABSENT, ROOT}
     /\ g.parent["A"] \in {ABSENT, ROOT}
     /\ g.parent["X"] = "P" => g.parent["P"] = ROOT
     /\ g.holder["e2"] \in {ABSENT, ROOT}
     /\ g.holder["e1"] = "P" => g.parent["P"] = ROOT}

\* d.nodes of the node `parent` (of the layout itself for ROOT)
deltaChildren(g, parent) == {n \in DeltaNodes : g.parent[n] = parent}

\* d.edges of the node `holder`
deltaEdgesOf(g, holder) == {e \in DeltaEdges : g.holder[e] = holder}

Last(q) == q[Len(q)]
IsPrefix(p, q) == Len(p) <= Len(q) /\ SubSeq(q, 1, Len(p)) = p

\* an update selection that leaves the tag of the datum as it was
keepTag(old) == old

\* nodesGroup.each(d => (d.state = 'updated'))
updateTag(old) == "updated"

\* the data join of one sibling group: the '.node' children of the element
\* at `path`, joined by id with the children `kids`
joinExit(els, path, kids) ==
  {q \in DOMAIN els : Len(q) = Len(path) + 1 /\ IsPrefix(path, q) /\ Last(q) \notin kids}

joinUpdate(els, path, kids) ==
  {q \in DOMAIN els : Len(q) = Len(path) + 1 /\ IsPrefix(path, q) /\ Last(q) \in kids}

joinEnter(els, path, kids) ==
  {Append(path, k) : k \in kids} \ DOMAIN els

tagGroup(els, path, kids) ==
  LET exit == joinExit(els, path, kids)
      enter == joinEnter(els, path, kids)
      update == joinUpdate(els, path, kids)
  IN  [q \in DOMAIN els \cup enter |->
         IF q \in enter THEN [state |-> "new", fresh |-> TRUE]
         ELSE IF q \in exit THEN [state |-> "removed", fresh |-> TRUE]
         ELSE IF q \in update THEN [state |-> updateTag(els[q].state), fresh |-> TRUE]
         ELSE els[q]]

RECURSIVE recursiveBuild(_, _, _, _)
RECURSIVE recursiveBuildEach(_, _, _)
\* _recursiveBuild(selection, childrenNodes)
recursiveBuild(els, g, path, parent) ==
  LET kids == deltaChildren(g, parent)
  IN  recursiveBuildEach(tagGroup(els, path, kids), g, {Append(path, k) : k \in kids})

\* [newNodes, nodesGroup].forEach(g => g.each(...)): the build goes on
\* below every new and every updated element
recursiveBuildEach(els, g, todo) ==
  IF todo = {} THEN els
  ELSE LET q == CHOOSE x \in todo : TRUE
       IN  recursiveBuildEach(recursiveBuild(els, g, q, Last(q)), g, todo \ {q})

\* the order in which removed hook then added hook would be called
removedFirst == <<"removed", "new", "updated">>

\* the order of the three hook calls of a pass, by the tag they filter on
hookOrder == <<"new", "updated", "removed">>

nodeHook(tag) ==
  CASE tag = "new" -> "renderNodeAdded"
    [] tag = "updated" -> "renderNodeUpdated"
    [] tag = "removed" -> "renderNodeRemoved"

edgeHook(tag) ==
  CASE tag = "new" -> "renderEdgeAdded"
    [] tag = "updated" -> "renderEdgeUpdated"
    [] tag = "removed" -> "renderEdgeRemoved"

\* chart.selectAll(...).filter(d => d.state === tag)
withState(els, tag) == {q \in DOMAIN els : els[q].state = tag}

stale(els) == [q \in DOMAIN els |-> [els[q] EXCEPT !.fresh = FALSE]]

\* renderNodesDelta: the elements after the build, and the hook calls
renderNodesDelta(els, g) ==
  LET built == recursiveBuild(stale(els), g, <<>>, ROOT)
  IN  [els |-> built,
       calls |-> [i \in 1..3 |-> [hook |-> nodeHook(hookOrder[i]),
                                  got |-> withState(built, hookOrder[i])]]]

\* the edge-list of the layout itself only
rootEdges(g) == deltaEdgesOf(g, ROOT)

\* every edge-list that traverse reaches from the layout
allEdges(g) ==
  UNION {deltaEdgesOf(g, h) : h \in {ROOT} \cup {n \in DeltaNodes : g.parent[n] # ABSENT}}

\* renderEdgesDelta: one join, by id, of all '.edge' elements with the
\* edges of all edge-lists
renderEdgesDelta(els, g) ==
  LET all == allEdges(g)
      built == [e \in DOMAIN els \cup all |->
                  IF e \notin DOMAIN els THEN [state |-> "new", fresh |-> TRUE]
                  ELSE IF e \notin all THEN [state |-> "removed", fresh |-> TRUE]
                  ELSE [state |-> updateTag(els[e].state), fresh |-> TRUE]]
  IN  [els |-> built,
       calls |-> [i \in 1..3 |-> [hook |-> edgeHook(hookOrder[i]),
                                  got |-> withState(built, hookOrder[i])]]]

\* what a call of hook `name` was given (the empty set if it was not called)
given(calls, name) ==
  UNION {calls[i].got : i \in {j \in 1..Len(calls) : calls[j].hook = name}}

\* the removed hook takes a node's element, and all below it, out of the chart
detachNodes(els, gone) ==
  LET keep == {q \in DOMAIN els : \A p \in gone : ~IsPrefix(p, q)}
  IN  [q \in keep |-> els[q]]

detachEdges(els, gone) == [e \in DOMAIN els \ gone |-> els[e]]

InitDelta ==
  /\ CoreIdle
  /\ registry = IDLE
  /\ async = IDLE
  /\ tracer = IDLE
  /\ culler = IDLE
  /\ \E g \in DeltaGraphs :
       delta = [data |-> g, layout |-> <<>>,
                nodes |-> <<>>, edges |-> <<>>,
                passNodes |-> <<>>, passEdges |-> <<>>, calls |-> <<>>,
                rendered |-> <<>>, again |-> FALSE, heldBefore |-> <<>>]

\* setData(data)
setDataDelta(g) ==
  /\ delta' = [delta EXCEPT !.data = g, !.layout = <<>>]
  /\ UNCHANGED <<coreVars, async, tracer, culler, registry>>

\* render() in delta mode, up to its return; the layout is computed from
\* the data when there is none
renderDelta ==
  /\ LET g == IF delta.layout = <<>> THEN delta.data ELSE delta.layout[1]
         n == renderNodesDelta(delta.nodes, g)
         e == renderEdgesDelta(delta.edges, g)
     IN  delta' = [delta EXCEPT
           !.layout = <<g>>,
           !.passNodes = n.els,
           !.passEdges = e.els,
           !.calls = n.calls \o e.calls,
           !.nodes = detachNodes(n.els, given(n.calls, "renderNodeRemoved")),
           !.edges = detachEdges(e.els, given(e.calls, "renderEdgeRemoved")),
           !.rendered = <<g>>,
           !.again = (delta.rendered = <<g>>),
           !.heldBefore = IF delta.rendered = <<>> THEN <<>>
                          ELSE <<delta.rendered[1].holder>>]
  /\ UNCHANGED <<coreVars, async, tracer, culler, registry>>

NextDelta ==
  \/ \E g \in DeltaGraphs : setDataDelta(g)
  \/ renderDelta

SpecDelta == InitDelta /\ [][NextDelta]_vars

RECURSIVE deltaPath(_, _)
deltaPath(g, n) ==
  IF g.parent[n] = ROOT THEN <<n>> ELSE Append(deltaPath(g, g.parent[n]), n)

deltaPaths(g) == {deltaPath(g, n) : n \in {m \in DeltaNodes : g.parent[m] # ABSENT}}

PassDone == delta.calls # <<>>

MovedEdge(e) ==
  /\ PassDone
  /\ delta.heldBefore # <<>>
  /\ delta.heldBefore[1][e] # ABSENT
  /\ delta.rendered[1].holder[e] # ABSENT
  /\ delta.rendered[1].holder[e] # delta.heldBefore[1][e]

\* C14: an edge whose id is in the previous and in the next snapshot, held
\* by a different edge-list in the next one, is classified updated: it is
\* handed to renderEdgeUpdated and neither to renderEdgeRemoved nor to
\* renderEdgeAdded.
C14_MovedEdgeUpdated ==
  \A e \in DeltaEdges :
    MovedEdge(e) =>
      /\ delta.passEdges[e].state = "updated"
      /\ e \in given(delta.calls, "renderEdgeUpdated")
      /\ e \notin given(delta.calls, "renderEdgeAdded")
      /\ e \notin given(delta.calls, "renderEdgeRemoved")

\* a pass after which e1 has moved from the layout's edge-list into P's
C14_Witness ==
  /\ MovedEdge("e1")
  /\ delta.heldBefore[1]["e1"] = ROOT
  /\ delta.rendered[1].holder["e1"] = "P"

hooksCalled == [i \in 1..Len(delta.calls) |-> delta.calls[i].hook]

\* C15 (as the code behaves): a delta pass calls the added hook first, the
\* updated hook second and the removed hook last, for the nodes and then
\* for the edges; the removed hook is invoked after the added hook of the
\* same pass.
C15_RemovedHookLast ==
  PassDone =>
    hooksCalled = <<"renderNodeAdded", "renderNodeUpdated", "renderNodeRemoved",
                    "renderEdgeAdded", "renderEdgeUpdated", "renderEdgeRemoved">>

\* a pass with nodes and edges to add and nodes and edges to remove
C15_Witness ==
  /\ PassDone
  /\ given(delta.calls, "renderNodeAdded") # {}
  /\ given(delta.calls, "renderNodeRemoved") # {}
  /\ given(delta.calls, "renderEdgeAdded") # {}
  /\ given(delta.calls, "renderEdgeRemoved") # {}

position(name) == CHOOSE i \in 1..Len(hooksCalled) : hooksCalled[i] = name

\* C15 as stated: the removed hook is invoked before the added hook
C15_RemovedHookFirst ==
  PassDone =>
    /\ position("renderNodeRemoved") < position("renderNodeAdded")
    /\ position("renderEdgeRemoved") < position("renderEdgeAdded")

\* C16: the hooks of a pass are handed exactly the elements that this
\* pass's join classified: every element handed to a hook got its tag in
\* this pass, and every element tagged in this pass is handed to the hook
\* of its tag.
C16_NoStaleTags ==
  PassDone =>
    /\ \A i \in 1..3 : \A q \in delta.calls[i].got : delta.passNodes[q].fresh
    /\ \A i \in 4..6 : \A e \in delta.calls[i].got : delta.passEdges[e].fresh
    /\ \A q \in DOMAIN delta.passNodes :
         delta.passNodes[q].fresh =>
           q \in given(delta.calls, nodeHook(delta.passNodes[q].state))
    /\ \A e \in DOMAIN delta.passEdges :
         delta.passEdges[e].fresh =>
           e \in given(delta.calls, edgeHook(delta.passEdges[e].state))

\* a pass that removed P and handed X, below P, to renderNodeAdded on the
\* tag of an earlier pass
C16_Witness ==
  /\ PassDone
  /\ <<"P">> \in given(delta.calls, "renderNodeRemoved")
  /\ <<"P", "X">> \in given(delta.calls, "renderNodeAdded")
  /\ ~delta.passNodes[<<"P", "X">>].fresh

(***************************************************************************)
(* Calls that overlap.  render (when there is no layout), collapse and     *)
(* expand are async functions: each runs up to its await of the layout     *)
(* adapter when it is called, and the rest (the layout is stored, the      *)
(* chart redrawn) runs when the adapter's promise resolves, which may be   *)
(* after later calls and in any order.  async.pending holds the calls that *)
(* wait; async.step describes the last step: the call or the completion,   *)
(* whether it called adapter.run, whether it ran a render pass (and with   *)
(* it the hooks), whether it was a render of a renderer without data.      *)
(* async.held is the set of nodes with a collapse that reached the adapter *)
(* and neither an expand nor new data since.  Here `data` is <<>>          *)
(* (this.data = {}) or <<g>>.                                              *)
(* async.nest follows calls that do not overlap: collapses of distinct     *)
(* nodes, each begun when no call waits, from a graph with no record, and  *)
(* then expands of the same nodes in reverse order; st0 is the state       *)
(* before the first collapse, stack the nodes collapsed and not expanded,  *)
(* count the number of collapses.  async.layoutOf is the data the layout   *)
(* held in this.layout was computed from (<<>> when there is none), and    *)
(* async.late tells that the last setData came while a render() waited.    *)
(*                                                                         *)
(* The calls are offered where the node objects of one layout suffice:     *)
(* collapse and expand when there is a layout and no render is waiting,    *)
(* setData when no collapse and no expand is waiting.                      *)
(***************************************************************************)
MaxCalls == 6

AsyncGraphs ==
  {g \in Graphs : /\ g["e1"].source \in {"A", "X"} /\ g["e1"].target = "U"
                  /\ g["e1"].holder = ROOT
                  /\ g["e2"].source = "X" /\ g["e2"].target = "U"}

Mutations == {j \in async.pending : j.kind \in {"collapse", "expand"}}

Renders == {j \in async.pending : j.kind = "render"}

NoNest == [st0 |-> <<>>, stack |-> <<>>, phase |-> "none", count |-> 0]

\* async.nest after a collapse(nodeId) that reached the adapter
nestCollapse(nodeId) ==
  IF async.pending # {} THEN NoNest
  ELSE IF async.nest.phase = "down" /\ nodeId \notin Range(async.nest.stack)
       THEN [async.nest EXCEPT !.stack = Append(@, nodeId), !.count = @ + 1]
       ELSE IF collapseTracker = EmptyMap /\ hiddenEdges = EmptyMap
            THEN [st0 |-> <<State>>, stack |-> <<nodeId>>, phase |-> "down", count |-> 1]
            ELSE NoNest

\* async.nest after an expand(nodeId) that reached the adapter
nestExpand(nodeId) ==
  IF /\ async.pending = {}
     /\ async.nest.phase \in {"down", "up"}
     /\ async.nest.stack[Len(async.nest.stack)] = nodeId
  THEN [async.nest EXCEPT !.stack = SubSeq(@, 1, Len(@) - 1),
                          !.phase = IF Len(async.nest.stack) = 1 THEN "closing" ELSE "up"]
  ELSE NoNest

\* async.nest after a waiting call has completed
nestDone ==
  IF async.nest.phase = "closing" THEN [async.nest EXCEPT !.phase = "done"] ELSE async.nest

InitAsync ==
  /\ data = <<>>
  /\ layout = "null"
  /\ chart = FALSE
  /\ dom = [x \in NodeIds \cup {ROOT} |-> <<>>]
  /\ nodeObj = [x \in NodeIds \cup {ROOT} |-> BlankNode]
  /\ edgeObj = [e \in EdgeIds |-> [source |-> NONE, target |-> NONE]]
  /\ collapseTracker = EmptyMap
  /\ hiddenEdges = EmptyMap
  /\ last = IDLE
  /\ pre = IDLE
  /\ base = IDLE
  /\ nops = 0
  /\ async = [pending |-> {}, held |-> {}, nest |-> NoNest,
              layoutOf |-> <<>>, late |-> FALSE,
              step |-> [op |-> "new", id |-> NONE, outcome |-> "ok",
                        run |-> FALSE, pass |-> FALSE, noData |-> FALSE]]
  /\ delta = IDLE
  /\ tracer = IDLE
  /\ culler = IDLE
  /\ registry = EmptyMap

asyncStep(op, id, outcome, run, pass, noData) ==
  [op |-> op, id |-> id, outcome |-> outcome, run |-> run, pass |-> pass, noData |-> noData]

asyncJob(kind, id, d) == [kind |-> kind, id |-> id, data |-> d, seq |-> nops]

\* setData(data)
AsyncSetData(g) ==
  /\ nops < MaxCalls
  /\ Mutations = {}
  /\ nops' = nops + 1
  /\ data' = <<g>>
  /\ layout' = "null"
  /\ async' = [async EXCEPT !.held = {}, !.nest = NoNest,
                             !.layoutOf = <<>>, !.late = (Renders # {}),
                             !.step = asyncStep("setData", NONE, "ok", FALSE, FALSE, FALSE)]
  /\ UNCHANGED <<chart, dom, nodeObj, edgeObj, collapseTracker, hiddenEdges,
                 last, pre, base, delta, tracer, culler, registry>>

\* render(), up to its await: with a layout it has none and redraws at once;
\* without one, runLayout hands this.data to the adapter.  What the adapter
\* does with the {} of a renderer without data is the adapter's choice: it
\* throws in makeRenderingGraph, or it lays out a graph without nodes.
AsyncRender ==
  /\ nops < MaxCalls
  /\ nops' = nops + 1
  /\ UNCHANGED <<data, layout, nodeObj, edgeObj, collapseTracker, hiddenEdges,
                 last, pre, base, delta, tracer, culler, registry>>
  /\ IF layout # "null"
     THEN /\ chart' = TRUE
          /\ dom' = renderNodes(nodeObj)
          /\ async' = [async EXCEPT
                         !.nest = NoNest,
                         !.step = asyncStep("render", NONE, "ok", FALSE, TRUE, FALSE)]
     ELSE /\ UNCHANGED <<chart, dom>>
          /\ \/ async' = [async EXCEPT
                            !.pending = @ \cup {asyncJob("render", NONE, data)},
                            !.nest = NoNest,
                            !.step = asyncStep("render", NONE, "pending", TRUE, FALSE,
                                               data = <<>>)]
             \/ /\ data = <<>>
                /\ async' = [async EXCEPT
                               !.nest = NoNest,
                               !.step = asyncStep("render", NONE, "error", FALSE, FALSE, TRUE)]

\* collapse(nodeId), up to its await
AsyncCollapse(nodeId) ==
  /\ nops < MaxCalls
  /\ layout # "null"
  /\ chart
  /\ Renders = {}
  /\ nops' = nops + 1
  /\ UNCHANGED <<data, layout, chart, dom, last, pre, base, delta, tracer, culler, registry>>
  /\ LET D == childrenNodeIds(dom, nodeId)
     IN IF D = {}
        THEN /\ collapseTracker' = MapPut(collapseTracker, nodeId, newEntry)
             /\ async' = [async EXCEPT
                            !.nest = NoNest,
                            !.step = asyncStep("collapse", nodeId, "leaf", FALSE, FALSE, FALSE)]
             /\ UNCHANGED <<nodeObj, edgeObj, hiddenEdges>>
        ELSE LET acc == collapseTraverse(D, nodeId,
                           [nobj |-> nodeObj, eobj |-> edgeObj,
                            entry |-> newEntry, hid |-> hiddenEdges], ROOT)
             IN /\ nodeObj' = acc.nobj
                /\ edgeObj' = acc.eobj
                /\ collapseTracker' = MapPut(collapseTracker, nodeId, acc.entry)
                /\ hiddenEdges' = acc.hid
                /\ async' = [async EXCEPT
                     !.pending = @ \cup {asyncJob("collapse", nodeId, <<>>)},
                     !.held = @ \cup {nodeId},
                     !.nest = nestCollapse(nodeId),
                     !.step = asyncStep("collapse", nodeId, "pending", TRUE, FALSE, FALSE)]

\* expand(nodeId), up to its await
AsyncExpand(nodeId) ==
  /\ nops < MaxCalls
  /\ layout # "null"
  /\ chart
  /\ Renders = {}
  /\ nops' = nops + 1
  /\ UNCHANGED <<data, layout, chart, dom, last, pre, base, delta, tracer, culler, registry>>
  /\ IF nodeId \notin DomNodes(dom) \/ nodeId \notin DOMAIN collapseTracker
     THEN /\ async' = [async EXCEPT
                         !.nest = NoNest,
                         !.step = asyncStep("expand", nodeId, "error", FALSE, FALSE, FALSE)]
          /\ UNCHANGED <<nodeObj, edgeObj, collapseTracker, hiddenEdges>>
     ELSE LET entry == collapseTracker[nodeId]
              nobj1 == [nodeObj EXCEPT ![nodeId].nodes = entry.nodes,
                                       ![nodeId].collapsed = "false"]
              r == restoreHiddenAll(nodeId, nobj1,
                                    [rootEdges |-> nobj1[ROOT].edges, hid |-> hiddenEdges],
                                    traverse(nobj1, nodeId))
              nobj2 == [nobj1 EXCEPT ![ROOT].edges = r.rootEdges]
              seen == visitedEdges(nobj2) \cap EdgeIds
          IN /\ nodeObj' = nobj2
             /\ hiddenEdges' = r.hid
             /\ edgeObj' = [e \in EdgeIds |->
                              IF e \in seen THEN revertEdge(entry.edgeMap, edgeObj[e], e)
                              ELSE edgeObj[e]]
             /\ collapseTracker' = MapDel(collapseTracker, nodeId)
             /\ async' = [async EXCEPT
                  !.pending = @ \cup {asyncJob("expand", nodeId, <<>>)},
                  !.held = @ \ {nodeId},
                  !.nest = nestExpand(nodeId),
                  !.step = asyncStep("expand", nodeId, "pending", TRUE, FALSE, FALSE)]

\* the adapter's promise of the waiting call j resolves: the layout is
\* stored and the chart redrawn
AsyncDone(j) ==
  /\ j \in async.pending
  /\ LET nobj == IF j.kind # "render" THEN nodeObj
                 ELSE IF j.data = <<>> THEN [x \in NodeIds \cup {ROOT} |-> BlankNode]
                 ELSE runLayoutNodes(j.data[1])
         eobj == IF j.kind # "render" \/ j.data = <<>> THEN edgeObj
                 ELSE runLayoutEdges(j.data[1])
     IN /\ nodeObj' = nobj
        /\ edgeObj' = eobj
        /\ dom' = renderNodes(nobj)
  /\ layout' = ROOT
  /\ chart' = TRUE
  /\ async' = [async EXCEPT
                 !.pending = @ \ {j},
                 !.nest = nestDone,
                 !.layoutOf = IF j.kind = "render" THEN j.data ELSE @,
                 !.step = asyncStep("done", j.id, j.kind, FALSE, TRUE,
                                    j.kind = "render" /\ j.data = <<>>)]
  /\ UNCHANGED <<data, collapseTracker, hiddenEdges, nops,
                 last, pre, base, delta, tracer, culler, registry>>

NextAsync ==
  \/ \E g \in AsyncGraphs : AsyncSetData(g)
  \/ AsyncRender
  \/ \E nodeId \in Ids : AsyncCollapse(nodeId)
  \/ \E nodeId \in Ids : AsyncExpand(nodeId)
  \/ \E j \in async.pending : AsyncDone(j)

SpecAsync == InitAsync /\ [][NextAsync]_vars

\* C11: a collapse or expand requested while an earlier one waits for the
\* adapter is not applied before the earlier one's layout is stored, so at
\* no time do two of them wait, and once none waits the graph agrees with
\* the calls made: every node with a collapse that reached the adapter and
\* no expand since is collapsed and has a record.
C11_MutationsQueued ==
  /\ Cardinality(Mutations) <= 1
  /\ async.pending = {} =>
       \A n \in async.held :
         n \in DOMAIN collapseTracker /\ nodeObj[n].collapsed = "true"

\* no call waits, two collapses had overlapped, and the node of the second
\* has a record but is not collapsed
C11_Witness ==
  /\ async.pending = {}
  /\ \E n \in async.held :
       n \in DOMAIN collapseTracker /\ nodeObj[n].collapsed # "true"

\* C12: no render pass reads the graph between the rewrite of a collapse or
\* expand and the storing of that call's layout: a step that ran a render
\* pass leaves no collapse and no expand waiting.
C12_NoRenderWhileMutationPending ==
  async.step.pass => Mutations = {}

\* an independent render() redrew the chart while a collapse was waiting
C12_Witness ==
  /\ async.step.op = "render"
  /\ async.step.pass
  /\ \E j \in Mutations : j.kind = "collapse"

\* C20: render() of a renderer that was never given data fails: it ends
\* with an error, adapter.run is not called, and no render pass (so no
\* hook) follows from it.
C20_RenderWithoutDataFails ==
  async.step.noData =>
    /\ async.step.op = "render"
    /\ async.step.outcome = "error"
    /\ ~async.step.run
    /\ ~async.step.pass

\* a render() without data reached adapter.run, and its completion redrew
C20_Witness ==
  /\ async.step.noData
  /\ async.step.op = "done"
  /\ async.step.pass
  /\ data = <<>>

(***************************************************************************)
(* setCallback and unsetCallback.  registry maps the names that have a     *)
(* callback to it.  GRAPH_EVENTS is imported from './graph-events'; its    *)
(* names are the ones _enableInteraction dispatches on.  `last` is the     *)
(* last call and `pre` holds the registry before it.                       *)
(***************************************************************************)
GRAPH_EVENTS ==
  {"backgroundClick", "backgroundDblClick", "nodeClick", "nodeDblClick",
   "nodeMouseEnter", "nodeMouseLeave", "edgeClick", "edgeMouseEnter", "edgeMouseLeave"}

\* names a caller may pass: the events, and names that are none
CallbackNames == GRAPH_EVENTS \cup {"nodeHover", "toString"}

Callbacks == {"f", "g"}

MaxRegistryCalls == 3

InitRegistry ==
  /\ data = IDLE
  /\ layout = IDLE
  /\ chart = IDLE
  /\ dom = IDLE
  /\ nodeObj = IDLE
  /\ edgeObj = IDLE
  /\ collapseTracker = IDLE
  /\ hiddenEdges = IDLE
  /\ last = [op |-> "new", name |-> NONE, fn |-> NONE, outcome |-> "ok"]
  /\ pre = <<>>
  /\ base = IDLE
  /\ nops = 0
  /\ async = IDLE
  /\ delta = IDLE
  /\ tracer = IDLE
  /\ culler = IDLE
  /\ registry = EmptyMap

\* a registration that does not look at the name
registerUnchecked(reg, name, fn) == [outcome |-> "ok", registry |-> MapPut(reg, name, fn)]

\* the body of setCallback
register(reg, name, fn) ==
  IF name \notin GRAPH_EVENTS
  THEN [outcome |-> "error", registry |-> reg]
  ELSE [outcome |-> "ok", registry |-> MapPut(reg, name, fn)]

\* setCallback(name, fn)
setCallback(name, fn) ==
  /\ nops < MaxRegistryCalls
  /\ nops' = nops + 1
  /\ LET r == register(registry, name, fn)
     IN /\ registry' = r.registry
        /\ last' = [op |-> "setCallback", name |-> name, fn |-> fn, outcome |-> r.outcome]
  /\ pre' = <<registry>>
  /\ UNCHANGED <<data, layout, chart, dom, nodeObj, edgeObj, collapseTracker, hiddenEdges,
                 base, async, delta, tracer, culler>>

\* unsetCallback(name)
unsetCallback(name) ==
  /\ nops < MaxRegistryCalls
  /\ nops' = nops + 1
  /\ registry' = MapDel(registry, name)
  /\ last' = [op |-> "unsetCallback", name |-> name, fn |-> NONE, outcome |-> "ok"]
  /\ pre' = <<registry>>
  /\ UNCHANGED <<data, layout, chart, dom, nodeObj, edgeObj, collapseTracker, hiddenEdges,
                 base, async, delta, tracer, culler>>

NextRegistry ==
  \/ \E name \in CallbackNames, fn \in Callbacks : setCallback(name, fn)
  \/ \E name \in CallbackNames : unsetCallback(name)

SpecRegistry == InitRegistry /\ [][NextRegistry]_vars

\* the callback in the slot `name` of the registry reg: <<fn>>, or <<>>
Slot(reg, name) == IF name \in DOMAIN reg THEN <<reg[name]>> ELSE <<>>

OtherSlotsKept ==
  \A n \in CallbackNames : n # last.name => Slot(registry, n) = Slot(pre[1], n)

\* C21: setCallback with a name that is no graph event fails and leaves the
\* registry as it was; with the name of a graph event it puts fn in that
\* slot in place of what was there; unsetCallback empties the slot.  No
\* other slot changes.
C21_RegistrySlots ==
  /\ last.op = "setCallback" /\ last.name \notin GRAPH_EVENTS =>
       last.outcome = "error" /\ registry = pre[1]
  /\ last.op = "setCallback" /\ last.name \in GRAPH_EVENTS =>
       /\ last.outcome = "ok"
       /\ Slot(registry, last.name) = <<last.fn>>
       /\ OtherSlotsKept
  /\ last.op = "unsetCallback" =>
       /\ Slot(registry, last.name) = <<>>
       /\ OtherSlotsKept

\* an unknown name was refused while the registry held a callback
C21_Witness ==
  /\ last.op = "setCallback"
  /\ last.name \notin GRAPH_EVENTS
  /\ last.outcome = "error"
  /\ \E n \in DOMAIN registry : registry[n] = "g"

\* the nodes from which `seen` is reached along the edges, `seen` included
RECURSIVE BackwardClosure(_, _)
BackwardClosure(edges, seen) ==
  LET more == seen \cup {edges[i].source : i \in {j \in 1..Len(edges) : edges[j].target \in seen}}
  IN  IF more = seen THEN seen ELSE BackwardClosure(edges, more)

\* how many edges of the list join s to t
CountOf(edges, s, t) ==
  Cardinality({i \in 1..Len(edges) : edges[i].source = s /\ edges[i].target = t})

\* the result of a returned trace holds, once each, the edges of `edges`
\* whose target is the start node or leads to it
TracesExactly(edges) ==
  LET reach == BackwardClosure(edges, {tracer.nodeId})
  IN  \A s, t \in TraceNodes :
        CountOf(tracer.result[1].edges, s, t) =
          IF t \in reach THEN CountOf(edges, s, t) ELSE 0

\* C22: a returned trace holds exactly the edges, of any edge-list of the
\* layout, whose target is the start node or a node from which an edge
\* path leads to it, each of them once; and it is empty, nodes and edges,
\* when there is no such edge.
C22_TraceAllEdgeLists ==
  TraceReturned =>
    /\ TracesExactly(tracer.data \o tracer.nested)
    /\ (\A i \in 1..Len(tracer.data \o tracer.nested) :
          (tracer.data \o tracer.nested)[i].target # tracer.nodeId)
       => tracer.result[1] = [edges |-> <<>>, nodes |-> <<>>]

\* a returned trace that lacks an edge into its start node, held by a
\* nested edge-list
C22_Witness ==
  /\ TraceReturned
  /\ \E i \in 1..Len(tracer.nested) :
       /\ tracer.nested[i].target = tracer.nodeId
       /\ CountOf(tracer.result[1].edges, tracer.nested[i].source, tracer.nodeId) = 0

\* the calls so far end a run of collapses, one after the other, followed
\* by the expands of the same nodes in reverse order, all completed
NestedRoundTrip == async.nest.phase = "done"

\* C23: after collapses of distinct nodes, each of a visible node with
\* children, followed by expands of the same nodes in reverse order, the
\* node tree and the source and target of every edge are those of the
\* graph before the first collapse, and there is no collapse record.
C23_NestedRoundTrip ==
  NestedRoundTrip =>
    LET s == async.nest.st0[1] IN
      /\ Live(State) = Live(s)
      /\ \A x \in Live(s) : nodeObj[x].nodes = s.nodeObj[x].nodes
      /\ \A e \in LiveEdges(s) : edgeObj[e] = s.edgeObj[e]
      /\ collapseTracker = EmptyMap

\* X and then P were collapsed, P and then X expanded, and an edge of the
\* graph has another target than before
C23_Witness ==
  /\ NestedRoundTrip
  /\ async.nest.count = 2
  /\ async.step.id = "X"
  /\ \E e \in LiveEdges(async.nest.st0[1]) :
       edgeObj[e].target # async.nest.st0[1].edgeObj[e].target

\* C24: when setData came while a render() was waiting for the adapter,
\* then once no render() waits the layout held by the renderer is the one
\* computed from the data of that setData, the most recent one.
C24_LayoutOfLatestData ==
  (async.late /\ Renders = {}) => async.layoutOf = data

\* setData came while a render() waited, no call waits any more, and the
\* graph held is the layout of the earlier data, which differs from the
\* layout of the data set last
C24_Witness ==
  /\ async.late
  /\ async.pending = {}
  /\ data # <<>>
  /\ async.layoutOf # <<>>
  /\ async.layoutOf # data
  /\ async.step.op = "done"
  /\ nodeObj = runLayoutNodes(async.layoutOf[1])
  /\ edgeObj = runLayoutEdges(async.layoutOf[1])
  /\ (nodeObj # runLayoutNodes(data[1]) \/ edgeObj # runLayoutEdges(data[1]))

====
